---- MODULE Spec2Model ----
(***************************************************************************)
(* A model of the rate limiter of simp-lee/ginx (ratelimit.go):            *)
(*   - MemoryLimiterStore: Get/Set/Delete/Clear/Close and the cleanup      *)
(*     goroutine, at the granularity of the store's mutex (StoreSpec);     *)
(*   - RateLimiter.Middleware, RateLimitWithWait and                       *)
(*     DynamicRateLimiter.Middleware, one action per call on shared state  *)
(*     (store.Get, store.Set, Allow, Reserve, Cancel, Tokens, Wait) (Spec).*)
(* The token bucket is golang.org/x/time/rate's Limiter.  Time is counted  *)
(* in ticks, TicksPerSec ticks to the second, and tokens in units of       *)
(* 1/TicksPerSec token, so that a limiter of rate r gains r units a tick.  *)
(***************************************************************************)
EXTENDS Integers, FiniteSets, Sequences, TLC

\* ------------------------------------------------------------------ bounds
NumProcs == 2
NumKeys == 2
MaxReqs == 3
MaxTime == 2
TicksPerSec == 2
\* StoreSpec: the callers of the store, their calls, the clock's range, and
\* the store's maxIdle in ticks.
NumCallers == 2
NumStores == 3
EvictMaxTime == 4
MaxCleanups == 2
MaxOps == 3
StoreMaxTime == 3
MaxIdle == 2

Procs == 1..NumProcs
Keys == 1..NumKeys
\* (rps, burst) pairs; rps and burst are Go ints: negative, zero and positive.
Limits == ({0, 1, 2} \X {0, 1, 2}) \cup {<<-1, -1>>, <<-1, 1>>, <<1, -1>>}
\* What a dynamic resolver returns for a key.
DynLimits == {<<0, 0>>, <<2, 0>>, <<0, 1>>, <<1, 1>>}
\* Wait timeouts of RateLimitWithWait, in ticks.
Timeouts == {1, 2}
\* Buckets alive at once: one per key in the store, one more per request
\* that still holds a bucket the store no longer maps.
BucketIds == 1..(NumKeys + NumProcs)
NoBucket == 0

\* rate.InfDuration (math.MaxInt64 ns) and the time it leads to.
InfDuration == 1000000
InfTime == 2000000

Min(a, b) == IF a < b THEN a ELSE b
Max(a, b) == IF a > b THEN a ELSE b
\* Go's conversion of a float to an integer truncates toward zero.
TruncDiv(a, b) == IF a >= 0 THEN a \div b ELSE -((-a) \div b)

\* --------------------------------------------------------------- variables
VARIABLES
    now,        \* the clock, in ticks
    mode,       \* which middleware is mounted: "immediate", "wait", "dynamic"
    rl,         \* RateLimiter{rps, burst, headers}
    timeout,    \* RateLimitWithWait's timeout, in ticks
    getLimits,  \* DynamicRateLimiter.getLimiter: key -> (rps, burst)
    limiters,   \* MemoryLimiterStore.limiters: key -> bucket id (NoBucket: absent)
    lastAccess, \* MemoryLimiterStore.lastAccess: key -> {} or {time}
    buckets,    \* the rate.Limiter objects: id -> {} or {limiter state}
    pc,         \* request goroutine's position
    req,        \* request goroutine's locals
    resp,       \* the response being written by the request goroutine
    issued,     \* history: per key, the requests that reached key derivation
    started,    \* history: requests started
    quiet,      \* history: no time has passed and no two requests overlapped
    spc,        \* store goroutines' positions (StoreSpec)
    slocal,     \* store goroutines' locals (StoreSpec)
    mu,         \* MemoryLimiterStore.mu: [writer, readers]
    done,       \* MemoryLimiterStore.done is closed
    tickerC,    \* MemoryLimiterStore.ticker.C: {} or {tick time}
    tickerOn,   \* the ticker has not been stopped
    panicked,   \* a goroutine panicked: the process is gone
    sops,       \* history: store operations called
    touched,    \* history: key -> {} or {time of the entry's last Get or Set}
    lastPass,   \* history: the reclamation pass cleanup has just made
    cond,       \* IsRateLimited: per goroutine, {} or {its last evaluation}
    gctx,       \* a request's gin.Context, and the key last derived from it
    reg         \* the stores of the process, the registry and the shutdown calls

engineVars == <<mode, rl, timeout, getLimits, buckets, pc, req, resp,
                issued, started, quiet>>
storeVars == <<limiters, lastAccess>>
lockVars == <<spc, slocal, mu, done, tickerC, tickerOn, panicked, sops, touched, lastPass,
              cond, gctx, reg>>
vars == <<now, engineVars, storeVars, lockVars>>

\* ------------------------------------------------- golang.org/x/time/rate
\* Limit.tokensFromDuration: the tokens (in units) gained in d ticks.
TokensFromDuration(limit, d) == IF limit <= 0 THEN 0 ELSE d * limit

\* Limit.durationFromTokens: the ticks needed to gain tk units.
DurationFromTokens(limit, tk) ==
    IF limit <= 0 THEN InfDuration ELSE TruncDiv(tk, limit)

TimeAdd(t, d) ==
    IF t >= InfTime \/ d >= InfDuration THEN InfTime ELSE t + d

\* rate.NewLimiter(r, b): a full bucket.
NewLimiter(r, b) ==
    [limit |-> r, burst |-> b, tokens |-> b * TicksPerSec, last |-> 0, lastEvent |-> 0]

\* Limiter.advance: the tokens at time t (the limiter is not changed).
Advance(lim, t) ==
    LET last == IF t < lim.last THEN t ELSE lim.last
        tokens == lim.tokens + TokensFromDuration(lim.limit, t - last)
    IN  Min(tokens, lim.burst * TicksPerSec)

\* Limiter.reserveN(t, 1, maxFutureReserve): the reservation and the limiter
\* after it.
ReserveN(lim, t, maxFutureReserve) ==
    LET tokens == Advance(lim, t) - TicksPerSec
        waitDuration == IF tokens < 0 THEN DurationFromTokens(lim.limit, -tokens) ELSE 0
        ok == 1 <= lim.burst /\ waitDuration <= maxFutureReserve
        timeToAct == TimeAdd(t, waitDuration)
    IN  [ok |-> ok,
         timeToAct |-> IF ok THEN timeToAct ELSE 0,
         lim |-> IF ok
                 THEN [lim EXCEPT !.last = t, !.tokens = tokens, !.lastEvent = timeToAct]
                 ELSE lim]

\* Reservation.CancelAt(t) of a reservation of one token: the limiter after it.
CancelAt(lim, timeToAct, t) ==
    LET restoreTokens ==
            TicksPerSec - TokensFromDuration(lim.limit, lim.lastEvent - timeToAct)
        tokens == Min(Advance(lim, t) + restoreTokens, lim.burst * TicksPerSec)
        prevEvent == IF lim.limit <= 0 THEN InfTime
                     ELSE timeToAct + DurationFromTokens(lim.limit, -TicksPerSec)
    IN  IF timeToAct < t \/ restoreTokens <= 0
        THEN lim
        ELSE [lim EXCEPT !.last = t,
                         !.tokens = tokens,
                         !.lastEvent = IF timeToAct = lim.lastEvent /\ prevEvent >= t
                                       THEN prevEvent ELSE @]

\* Limiter.Tokens() at time t.
Tokens(lim, t) == Advance(lim, t)

\* ------------------------------------------------------------- the engine
NoReq == [key |-> 0, lim |-> NoBucket, timeToAct |-> 0, deadline |-> 0,
          ord |-> 0, skipped |-> FALSE, clientGone |-> FALSE]
\* A response: the status written (0: none yet), the calls of the downstream
\* handler, each header as {} (absent) or {value}, and the JSON body's fields:
\* retry_after and timeout as {} or {value}.
NoResp == [status |-> 0, nexts |-> 0, limit |-> {}, remaining |-> {}, reset |-> {},
           retryAfter |-> {}, error |-> FALSE, bodyRetry |-> {}, bodyTimeout |-> {}]

\* The limiter a request holds.
LimOf(p) == CHOOSE b \in buckets[req[p].lim] : TRUE

\* The rate.Limiter objects still reachable (from the store or a request).
Collect(bks, lims, rq) ==
    [id \in BucketIds |->
        IF (\E k \in Keys : lims[k] = id) \/ (\E q \in Procs : rq[q].lim = id)
        THEN bks[id] ELSE {}]

FreeId == CHOOSE id \in BucketIds : buckets[id] = {} /\ \A j \in 1..(id - 1) : buckets[j] # {}

\* next(c): the downstream handler runs and the request ends.
Admit(p, r) == [r EXCEPT !.status = 200, !.nexts = @ + 1]

\* The abort without the return after it: next(c) runs all the same.
Abort429NoReturn(r) == [r EXCEPT !.status = 429, !.error = TRUE, !.nexts = @ + 1]

\* c.AbortWithStatusJSON(http.StatusTooManyRequests, gin.H{"error": ...}); return.
Abort429(r) == [r EXCEPT !.status = 429, !.error = TRUE]

\* The request ends: its locals go, its bucket reference with them.  gone:
\* it ends because the client's request context was cancelled.
FinishGone(p, r, bks, gone) ==
    LET rq == [req EXCEPT ![p].lim = NoBucket, ![p].clientGone = gone] IN
    /\ pc' = [pc EXCEPT ![p] = "done"]
    /\ resp' = [resp EXCEPT ![p] = r]
    /\ req' = rq
    /\ buckets' = Collect(bks, limiters, rq)

Finish(p, r, bks) == FinishGone(p, r, bks, FALSE)

\* A slip in getLimiter: rate.NewLimiter(rate.Limit(rl.burst), rl.rps).
limitsForSwapped(k) ==
    IF mode = "dynamic" THEN <<getLimits[k][2], getLimits[k][1]>> ELSE <<rl.burst, rl.rps>>

\* A slip in getLimiter: a burst that is not positive is "repaired" to 1.
limitsForClamped(k) ==
    LET l == IF mode = "dynamic" THEN getLimits[k] ELSE <<rl.rps, rl.burst>>
    IN  <<l[1], IF l[2] <= 0 THEN 1 ELSE l[2]>>

\* (rps, burst) a new limiter for key k is built with: rl.rps, rl.burst in
\* getLimiter, dl.getLimiter(key) in getRateLimiter.
limitsFor(k) == IF mode = "dynamic" THEN getLimits[k] ELSE <<rl.rps, rl.burst>>

\* A slip in Get: a hit refreshes the access time of every entry.
GetRefreshAll(k) ==
    [limiter |-> limiters[k],
     exists |-> limiters[k] # NoBucket,
     lastAccess |-> IF limiters[k] # NoBucket
                    THEN [j \in Keys |-> IF lastAccess[j] # {} THEN {now} ELSE {}]
                    ELSE lastAccess]

\* MemoryLimiterStore.Get, as one step under s.mu.
Get(k) ==
    [limiter |-> limiters[k],
     exists |-> limiters[k] # NoBucket,
     lastAccess |-> IF limiters[k] # NoBucket THEN [lastAccess EXCEPT ![k] = {now}]
                    ELSE lastAccess]

AfterLimiter == IF mode = "wait" THEN "wait" ELSE "allow"

\* No response is waiting to be delivered: a handler's return and the delivery
\* of its response are one step of the server.
Delivered == \A q \in Procs : pc[q] # "done"

\* A slip in Middleware: the skip predicate tested after getLimiter(key).
skipFunc_afterGet(p, k) ==
    /\ pc' = [pc EXCEPT ![p] = "done"]
    /\ req' = [req EXCEPT ![p] = [NoReq EXCEPT !.key = k, !.skipped = TRUE]]
    /\ resp' = [resp EXCEPT ![p] = Admit(p, NoResp)]
    /\ lastAccess' = Get(k).lastAccess
    /\ UNCHANGED issued

\* Middleware: rl.skipFunc(c) holds: next(c); return.
skipFunc_next(p, k) ==
    /\ pc' = [pc EXCEPT ![p] = "done"]
    /\ req' = [req EXCEPT ![p] = [NoReq EXCEPT !.key = k, !.skipped = TRUE]]
    /\ resp' = [resp EXCEPT ![p] = Admit(p, NoResp)]
    /\ UNCHANGED <<issued, lastAccess>>

\* Middleware up to store.Get: the skip predicate (skipFunc can only be set on a
\* RateLimiter, by WithSkipFunc), keyFunc(c), then getLimiter / getRateLimiter's
\* store.Get(key).
Request(p) ==
    /\ pc[p] = "idle"
    /\ Delivered
    /\ started < MaxReqs
    /\ started' = started + 1
    /\ quiet' = (quiet /\ \A q \in Procs \ {p} : pc[q] = "idle")
    /\ \E k \in Keys, skip \in (IF mode = "immediate" THEN BOOLEAN ELSE {FALSE}) :
          IF skip
          THEN skipFunc_next(p, k)
          ELSE LET g == Get(k) IN
               /\ pc' = [pc EXCEPT ![p] = IF g.exists THEN AfterLimiter ELSE "set"]
               /\ req' = [req EXCEPT ![p] = [NoReq EXCEPT !.key = k, !.ord = issued[k],
                                                          !.lim = g.limiter]]
               /\ resp' = [resp EXCEPT ![p] = NoResp]
               /\ issued' = [issued EXCEPT ![k] = @ + 1]
               /\ lastAccess' = g.lastAccess
    /\ UNCHANGED <<now, mode, rl, timeout, getLimits, buckets, limiters, lockVars>>

\* getLimiter / getRateLimiter, the key was absent: rate.NewLimiter, store.Set.
getLimiter_Set(p) ==
    /\ Delivered
    /\ pc[p] = "set"
    /\ LET k == req[p].key
           id == FreeId
           lims == [limiters EXCEPT ![k] = id]
           rq == [req EXCEPT ![p].lim = id]
           lim == NewLimiter(limitsFor(k)[1], limitsFor(k)[2])
       IN /\ limiters' = lims
          /\ lastAccess' = [lastAccess EXCEPT ![k] = {now}]
          /\ req' = rq
          /\ buckets' = Collect([buckets EXCEPT ![id] = {lim}], lims, rq)
    /\ pc' = [pc EXCEPT ![p] = AfterLimiter]
    /\ UNCHANGED <<now, mode, rl, timeout, getLimits, resp, issued, started, quiet, lockVars>>

\* The limiter of request p replaced by lim.
WithLim(p, lim) == [buckets EXCEPT ![req[p].lim] = {lim}]

\* X-RateLimit-Reset of setHeaders, in Unix seconds: the values the header can
\* take.  With rl.rps <= 0 the float64 division gives +Inf (rps = 0) or a
\* negative number; the conversion of +Inf to time.Duration is
\* implementation-dependent.
ResetValues(remaining) ==
    LET tokensNeeded == rl.burst - remaining IN
    IF tokensNeeded <= 0 THEN {(now + TicksPerSec) \div TicksPerSec}
    ELSE IF rl.rps > 0
         THEN {(now + TruncDiv(tokensNeeded * TicksPerSec, rl.rps)) \div TicksPerSec}
         ELSE IF rl.rps = 0 THEN {-InfTime, InfTime}
              ELSE {(now + TruncDiv(tokensNeeded * TicksPerSec, rl.rps)) \div TicksPerSec}

\* A slip in setHeaders: X-RateLimit-Remaining from the configured burst, less
\* the request itself, not from limiter.Tokens().
setHeadersBurst(r, lim, reset) ==
    [r EXCEPT !.limit = {rl.rps}, !.remaining = {rl.burst - 1}, !.reset = {reset}]

\* setHeaders: X-RateLimit-Limit, -Remaining, -Reset from rl and limiter.Tokens().
setHeaders(r, lim, reset) ==
    LET remaining == TruncDiv(Tokens(lim, now), TicksPerSec) IN
    [r EXCEPT !.limit = {rl.rps}, !.remaining = {remaining}, !.reset = {reset}]

\* Middleware: limiter.Allow().  Denied: handleRateLimit (RateLimiter), or the
\* 429 of DynamicRateLimiter.Middleware.  Allowed: setHeaders if rl.headers
\* (RateLimiter), then next(c).
Allow(p) ==
    /\ Delivered
    /\ pc[p] = "allow"
    /\ LET r == ReserveN(LimOf(p), now, 0) IN
          IF r.ok
          THEN IF mode = "immediate" /\ rl.headers
               THEN /\ pc' = [pc EXCEPT ![p] = "headers"]
                    /\ buckets' = WithLim(p, r.lim)
                    /\ UNCHANGED <<req, resp>>
               ELSE Finish(p, Admit(p, resp[p]), WithLim(p, r.lim))
          ELSE IF mode = "dynamic"
               THEN Finish(p, Abort429(resp[p]), buckets)
               ELSE /\ pc' = [pc EXCEPT ![p] = "reserve"]
                    /\ UNCHANGED <<buckets, req, resp>>
    /\ UNCHANGED <<now, mode, rl, timeout, getLimits, issued, started, quiet,
                   storeVars, lockVars>>

\* Middleware, allowed and rl.headers: setHeaders, then next(c).
setHeaders_next(p) ==
    /\ Delivered
    /\ pc[p] = "headers"
    /\ \E reset \in ResetValues(TruncDiv(Tokens(LimOf(p), now), TicksPerSec)) :
          Finish(p, Admit(p, setHeaders(resp[p], LimOf(p), reset)), buckets)
    /\ UNCHANGED <<now, mode, rl, timeout, getLimits, issued, started, quiet,
                   storeVars, lockVars>>

\* A slip in handleRateLimit: not OK, and a retry_after is put in the body all
\* the same.
handleRateLimit_ReserveHint(p) ==
    /\ Delivered
    /\ pc[p] = "reserve"
    /\ LET r == ReserveN(LimOf(p), now, InfDuration) IN
          IF r.ok
          THEN /\ pc' = [pc EXCEPT ![p] = "cancel"]
               /\ req' = [req EXCEPT ![p].timeToAct = r.timeToAct]
               /\ buckets' = WithLim(p, r.lim)
               /\ UNCHANGED resp
          ELSE Finish(p, [Abort429(resp[p]) EXCEPT !.bodyRetry = {1}], buckets)
    /\ UNCHANGED <<now, mode, rl, timeout, getLimits, issued, started, quiet,
                   storeVars, lockVars>>

\* handleRateLimit: limiter.Reserve(); not OK: the 429 with the error alone.
handleRateLimit_Reserve(p) ==
    /\ Delivered
    /\ pc[p] = "reserve"
    /\ LET r == ReserveN(LimOf(p), now, InfDuration) IN
          IF r.ok
          THEN /\ pc' = [pc EXCEPT ![p] = "cancel"]
               /\ req' = [req EXCEPT ![p].timeToAct = r.timeToAct]
               /\ buckets' = WithLim(p, r.lim)
               /\ UNCHANGED resp
          ELSE Finish(p, Abort429(resp[p]), buckets)
    /\ UNCHANGED <<now, mode, rl, timeout, getLimits, issued, started, quiet,
                   storeVars, lockVars>>

\* Reservation.DelayFrom(t).
DelayFrom(timeToAct, t) ==
    IF timeToAct >= InfTime THEN InfDuration ELSE Max(timeToAct - t, 0)

\* int64(delay.Seconds()) + 1.
retryAfter(delay) == TruncDiv(delay, TicksPerSec) + 1

\* handleRateLimit: reservation.Delay(), reservation.Cancel(), Retry-After if
\* rl.headers, the 429 with error and retry_after.
handleRateLimit_Cancel(p) ==
    /\ Delivered
    /\ pc[p] = "cancel"
    /\ LET delay == DelayFrom(req[p].timeToAct, now)
           lim == CancelAt(LimOf(p), req[p].timeToAct, now)
           r1 == IF rl.headers THEN [resp[p] EXCEPT !.retryAfter = {retryAfter(delay)}]
                 ELSE resp[p]
           r2 == [Abort429(r1) EXCEPT !.bodyRetry = {retryAfter(delay)}]
       IN Finish(p, r2, WithLim(p, lim))
    /\ UNCHANGED <<now, mode, rl, timeout, getLimits, issued, started, quiet,
                   storeVars, lockVars>>

\* The 429 of RateLimitWithWait: error and timeout (timeout.Seconds(), here in ticks).
AbortWait(r) == [Abort429(r) EXCEPT !.bodyTimeout = {timeout}]

\* A slip: context.WithTimeout(c.Request.Context(), 0).
ctxDeadlineNow(t) == t

\* context.WithTimeout(c.Request.Context(), timeout) at time t: the deadline.
ctxDeadline(t) == t + timeout

\* RateLimitWithWait: context.WithTimeout, rateLimiter.Wait(ctx) up to its timer.
\* Wait fails at once when 1 > burst, when ctx is already done (the client has
\* gone), or when the reservation would exceed the deadline.
Wait(p) ==
    /\ Delivered
    /\ pc[p] = "wait"
    /\ \E ctxDone \in BOOLEAN :
        LET lim == LimOf(p)
            r == ReserveN(lim, now, ctxDeadline(now) - now)
        IN  IF 1 > lim.burst \/ ctxDone \/ ~r.ok
            THEN FinishGone(p, AbortWait(resp[p]), buckets, ctxDone)
            ELSE IF DelayFrom(r.timeToAct, now) = 0
                 THEN Finish(p, Admit(p, resp[p]), WithLim(p, r.lim))
                 ELSE /\ pc' = [pc EXCEPT ![p] = "sleep"]
                      /\ req' = [req EXCEPT ![p].timeToAct = r.timeToAct,
                                            ![p].deadline = ctxDeadline(now)]
                      /\ buckets' = WithLim(p, r.lim)
                      /\ UNCHANGED resp
    /\ UNCHANGED <<now, mode, rl, timeout, getLimits, issued, started, quiet,
                   storeVars, lockVars>>

\* Wait's select, case <-ch: the timer fired; next(c).
Wait_timer(p) ==
    /\ Delivered
    /\ pc[p] = "sleep"
    /\ now >= req[p].timeToAct
    /\ Finish(p, Admit(p, resp[p]), buckets)
    /\ UNCHANGED <<now, mode, rl, timeout, getLimits, issued, started, quiet,
                   storeVars, lockVars>>

\* Wait's select, case <-ctx.Done(): the deadline passed or, before it, the
\* client went away; r.Cancel(), then the 429.
Wait_ctxDone(p) ==
    /\ Delivered
    /\ pc[p] = "sleep"
    /\ LET lim == CancelAt(LimOf(p), req[p].timeToAct, now) IN
          FinishGone(p, AbortWait(resp[p]), WithLim(p, lim), now < req[p].deadline)
    /\ UNCHANGED <<now, mode, rl, timeout, getLimits, issued, started, quiet,
                   storeVars, lockVars>>

\* The response is delivered; the goroutine serves the next request.
Return(p) ==
    /\ pc[p] = "done"
    /\ pc' = [pc EXCEPT ![p] = "idle"]
    /\ req' = [req EXCEPT ![p] = NoReq]
    /\ resp' = [resp EXCEPT ![p] = NoResp]
    /\ UNCHANGED <<now, mode, rl, timeout, getLimits, buckets, issued, started, quiet,
                   storeVars, lockVars>>

\* Time passes.
Tick ==
    /\ Delivered
    /\ now < MaxTime
    /\ now' = now + 1
    /\ quiet' = FALSE
    /\ UNCHANGED <<mode, rl, timeout, getLimits, buckets, pc, req, resp, issued, started,
                   storeVars, lockVars>>

\* ---------------------------------------------------- MemoryLimiterStore
\* The goroutines of StoreSpec: the callers and the store's cleanup goroutine.
Callers == 1..NumCallers
Cleaner == NumCallers + 1
Goroutines == Callers \cup {Cleaner}
Nobody == 0
\* The limiters a caller hands to Set.
SetValues == {1, 2}
\* had: history, the keys the store held when Clear replaced its maps, or
\* when Close began.
NoLocal == [op |-> "", key |-> 0, val |-> NoBucket, wrote |-> FALSE, tick |-> 0,
            found |-> NoBucket, had |-> {}]

\* The state of the store's own goroutines and lock, at rest.
LockInit ==
    /\ spc = [g \in Goroutines |-> IF g = Cleaner THEN "select" ELSE "idle"]
    /\ slocal = [g \in Goroutines |-> NoLocal]
    /\ mu = [writer |-> Nobody, readers |-> {}]
    /\ done = FALSE
    /\ tickerC = {}
    /\ tickerOn = TRUE
    /\ panicked = FALSE
    /\ sops = 0
    /\ touched = [k \in Keys |-> {}]
    /\ lastPass = {}
    /\ cond = [p \in Procs |-> {}]
    /\ gctx = [ip |-> "", path |-> "", keys |-> [n \in {"user_id", "ginx.user_id"} |-> {}],
               by |-> "", key |-> {}]
    /\ reg = [stores |-> [s \in 1..NumStores |-> [made |-> FALSE, held |-> FALSE, done |-> FALSE,
                                                  task |-> "none"]],
              registry |-> {}, cleanups |-> 0, panicked |-> FALSE,
              rl |-> [store |-> 0, default |-> 0, closed |-> FALSE]]

\* NewRateLimiter(rps, burst) [.WithoutHeaders()].Middleware(),
\* RateLimitWithWait(rps, burst, timeout), or
\* NewDynamicRateLimiter(getLimiter).Middleware(), on an empty store.
Init ==
    /\ now = 0
    /\ mode \in {"immediate", "wait", "dynamic"}
    /\ \E l \in Limits, h \in BOOLEAN : rl = [rps |-> l[1], burst |-> l[2], headers |-> h]
    /\ mode # "immediate" => rl.headers
    /\ timeout \in Timeouts
    /\ mode # "wait" => timeout = 1
    /\ getLimits \in [Keys -> Limits \cup DynLimits]
    /\ mode = "dynamic" => rl.rps = 0 /\ rl.burst = 0
    /\ mode = "dynamic" => getLimits \in [Keys -> DynLimits]
    /\ mode # "dynamic" => getLimits = [k \in Keys |-> <<rl.rps, rl.burst>>]
    /\ limiters = [k \in Keys |-> NoBucket]
    /\ lastAccess = [k \in Keys |-> {}]
    /\ buckets = [id \in BucketIds |-> {}]
    /\ pc = [p \in Procs |-> "idle"]
    /\ req = [p \in Procs |-> NoReq]
    /\ resp = [p \in Procs |-> NoResp]
    /\ issued = [k \in Keys |-> 0]
    /\ started = 0
    /\ quiet = TRUE
    /\ LockInit

Next ==
    \/ \E p \in Procs : Request(p)
    \/ \E p \in Procs : getLimiter_Set(p)
    \/ \E p \in Procs : Allow(p)
    \/ \E p \in Procs : setHeaders_next(p)
    \/ \E p \in Procs : handleRateLimit_Reserve(p)
    \/ \E p \in Procs : handleRateLimit_Cancel(p)
    \/ \E p \in Procs : Wait(p)
    \/ \E p \in Procs : Wait_timer(p)
    \/ \E p \in Procs : Wait_ctxDone(p)
    \/ \E p \in Procs : Return(p)
    \/ Tick

Spec == Init /\ [][Next]_vars

\* ---------------------------------------------------- DynamicRateLimiter
\* dl.getLimiter is the application's callback: what it returns for a key may
\* change between two requests (a user changes plan).
getLimiter_changes ==
    /\ Delivered
    /\ mode = "dynamic"
    /\ started < MaxReqs
    /\ \E k \in Keys : \E l \in DynLimits \ {getLimits[k]} :
          getLimits' = [getLimits EXCEPT ![k] = l]
    /\ UNCHANGED <<now, mode, rl, timeout, buckets, pc, req, resp, issued, started, quiet,
                   storeVars, lockVars>>

\* NewDynamicRateLimiter(getLimiter).Middleware() on an empty store.
DynInit == Init /\ mode = "dynamic"

DynNext ==
    \/ \E p \in Procs : Request(p)
    \/ \E p \in Procs : getLimiter_Set(p)
    \/ \E p \in Procs : Allow(p)
    \/ \E p \in Procs : Return(p)
    \/ Tick
    \/ getLimiter_changes

DynSpec == DynInit /\ [][DynNext]_vars

\* ------------------------------------------ MemoryLimiterStore, lock by lock
engineRest == <<mode, rl, timeout, getLimits, buckets, pc, req, resp, issued, started, quiet,
                cond, gctx, reg>>

\* s.mu.Lock().
Lock(g) ==
    /\ mu.writer = Nobody /\ mu.readers = {}
    /\ mu' = [mu EXCEPT !.writer = g]

\* s.mu.RLock().
RLock(g) ==
    /\ mu.writer = Nobody
    /\ mu' = [mu EXCEPT !.readers = @ \cup {g}]

\* s.mu.Unlock() / s.mu.RUnlock(): g gives up what it holds.
Unlock(g) ==
    mu' = [writer |-> IF mu.writer = g THEN Nobody ELSE mu.writer,
           readers |-> mu.readers \ {g}]

\* A caller calls Get, Set, Delete, Clear or Close.
Call(g) ==
    /\ ~panicked
    /\ spc[g] = "idle"
    /\ sops < MaxOps
    /\ sops' = sops + 1
    /\ \E op \in {"Get", "Set", "Delete", "Clear", "Close"} :
       \E k \in (IF op \in {"Get", "Set", "Delete"} THEN Keys ELSE {0}),
          v \in (IF op = "Set" THEN SetValues ELSE {NoBucket}) :
          /\ slocal' = [slocal EXCEPT ![g] = [NoLocal EXCEPT !.op = op, !.key = k, !.val = v]]
          /\ spc' = [spc EXCEPT ![g] = IF op = "Close" THEN "close" ELSE "lock"]
    /\ UNCHANGED <<now, engineRest, storeVars, mu, done, tickerC, tickerOn, panicked,
                   touched, lastPass>>

\* Get as the earlier revision had it: s.mu.RLock().
Get_RLock(g) ==
    /\ ~panicked
    /\ spc[g] = "lock" /\ slocal[g].op = "Get"
    /\ RLock(g)
    /\ spc' = [spc EXCEPT ![g] = "crit"]
    /\ UNCHANGED <<now, engineRest, storeVars, slocal, done, tickerC, tickerOn, panicked,
                   sops, touched, lastPass>>

\* Get: s.mu.Lock().
Get_Lock(g) ==
    /\ ~panicked
    /\ spc[g] = "lock" /\ slocal[g].op = "Get"
    /\ Lock(g)
    /\ spc' = [spc EXCEPT ![g] = "crit"]
    /\ UNCHANGED <<now, engineRest, storeVars, slocal, done, tickerC, tickerOn, panicked,
                   sops, touched, lastPass>>

\* Set, Delete, Clear: s.mu.Lock().
Write_Lock(g) ==
    /\ ~panicked
    /\ spc[g] = "lock" /\ slocal[g].op \in {"Set", "Delete", "Clear"}
    /\ Lock(g)
    /\ spc' = [spc EXCEPT ![g] = "crit"]
    /\ UNCHANGED <<now, engineRest, storeVars, slocal, done, tickerC, tickerOn, panicked,
                   sops, touched, lastPass>>

\* Get, under the lock: limiter, exists := s.limiters[key]; the access time
\* is refreshed on a hit.
Get_body(g) ==
    /\ ~panicked
    /\ spc[g] = "crit" /\ slocal[g].op = "Get"
    /\ LET k == slocal[g].key
           r == Get(k)
       IN /\ lastAccess' = r.lastAccess
          /\ touched' = IF r.exists THEN [touched EXCEPT ![k] = {now}] ELSE touched
          /\ slocal' = [slocal EXCEPT ![g].wrote = r.exists, ![g].found = r.limiter]
    /\ spc' = [spc EXCEPT ![g] = "unlock"]
    /\ UNCHANGED <<now, engineRest, limiters, mu, done, tickerC, tickerOn, panicked,
                   sops, lastPass>>

\* Set, under the lock.
Set_body(g) ==
    /\ ~panicked
    /\ spc[g] = "crit" /\ slocal[g].op = "Set"
    /\ LET k == slocal[g].key IN
          /\ limiters' = [limiters EXCEPT ![k] = slocal[g].val]
          /\ lastAccess' = [lastAccess EXCEPT ![k] = {now}]
          /\ touched' = [touched EXCEPT ![k] = {now}]
    /\ slocal' = [slocal EXCEPT ![g].wrote = TRUE]
    /\ spc' = [spc EXCEPT ![g] = "unlock"]
    /\ UNCHANGED <<now, engineRest, mu, done, tickerC, tickerOn, panicked, sops, lastPass>>

\* A slip in Delete: the entry leaves s.limiters but stays in s.lastAccess.
Delete_bodyLimiters(g) ==
    /\ ~panicked
    /\ spc[g] = "crit" /\ slocal[g].op = "Delete"
    /\ LET k == slocal[g].key IN
          /\ limiters' = [limiters EXCEPT ![k] = NoBucket]
          /\ touched' = [touched EXCEPT ![k] = {}]
    /\ slocal' = [slocal EXCEPT ![g].wrote = TRUE]
    /\ spc' = [spc EXCEPT ![g] = "unlock"]
    /\ UNCHANGED <<now, engineRest, lastAccess, mu, done, tickerC, tickerOn, panicked, sops,
                   lastPass>>

\* Delete, under the lock.
Delete_body(g) ==
    /\ ~panicked
    /\ spc[g] = "crit" /\ slocal[g].op = "Delete"
    /\ LET k == slocal[g].key IN
          /\ limiters' = [limiters EXCEPT ![k] = NoBucket]
          /\ lastAccess' = [lastAccess EXCEPT ![k] = {}]
          /\ touched' = [touched EXCEPT ![k] = {}]
    /\ slocal' = [slocal EXCEPT ![g].wrote = TRUE]
    /\ spc' = [spc EXCEPT ![g] = "unlock"]
    /\ UNCHANGED <<now, engineRest, mu, done, tickerC, tickerOn, panicked, sops, lastPass>>

\* A slip in Clear: one entry is deleted, not all.
Clear_bodyOne(g) ==
    /\ ~panicked
    /\ spc[g] = "crit" /\ slocal[g].op = "Clear"
    /\ \E k \in Keys :
          /\ limiters' = [limiters EXCEPT ![k] = NoBucket]
          /\ lastAccess' = [lastAccess EXCEPT ![k] = {}]
          /\ touched' = [touched EXCEPT ![k] = {}]
    /\ slocal' = [slocal EXCEPT ![g].wrote = TRUE,
                                ![g].had = {k \in Keys : limiters[k] # NoBucket}]
    /\ spc' = [spc EXCEPT ![g] = "unlock"]
    /\ UNCHANGED <<now, engineRest, mu, done, tickerC, tickerOn, panicked, sops, lastPass>>

\* Clear, under the lock: both maps are replaced by empty ones.
Clear_body(g) ==
    /\ ~panicked
    /\ spc[g] = "crit" /\ slocal[g].op = "Clear"
    /\ limiters' = [k \in Keys |-> NoBucket]
    /\ lastAccess' = [k \in Keys |-> {}]
    /\ touched' = [k \in Keys |-> {}]
    /\ slocal' = [slocal EXCEPT ![g].wrote = TRUE,
                                ![g].had = {k \in Keys : limiters[k] # NoBucket}]
    /\ spc' = [spc EXCEPT ![g] = "unlock"]
    /\ UNCHANGED <<now, engineRest, mu, done, tickerC, tickerOn, panicked, sops, lastPass>>

\* Get, Set, Delete, Clear: s.mu.Unlock() and the return.
Op_Unlock(g) ==
    /\ ~panicked
    /\ g \in Callers
    /\ spc[g] = "unlock"
    /\ Unlock(g)
    /\ spc' = [spc EXCEPT ![g] = "idle"]
    /\ slocal' = [slocal EXCEPT ![g] = NoLocal]
    /\ UNCHANGED <<now, engineRest, storeVars, done, tickerC, tickerOn, panicked,
                   sops, touched, lastPass>>

\* Close (and RateLimiter.Close, which calls it): close(s.done).  Closing a
\* closed channel panics.
Close_done(g) ==
    /\ ~panicked
    /\ spc[g] = "close"
    /\ IF done
       THEN /\ panicked' = TRUE
            /\ UNCHANGED <<done, spc>>
       ELSE /\ done' = TRUE
            /\ spc' = [spc EXCEPT ![g] = "stop"]
            /\ UNCHANGED panicked
    /\ slocal' = [slocal EXCEPT ![g].had = {k \in Keys : limiters[k] # NoBucket}]
    /\ UNCHANGED <<now, engineRest, storeVars, mu, tickerC, tickerOn,
                   sops, touched, lastPass>>

\* Close: s.ticker.Stop(); return nil.
Close_Stop(g) ==
    /\ ~panicked
    /\ spc[g] = "stop"
    /\ tickerOn' = FALSE
    /\ spc' = [spc EXCEPT ![g] = "idle"]
    /\ slocal' = [slocal EXCEPT ![g] = NoLocal]
    /\ UNCHANGED <<now, engineRest, storeVars, mu, done, tickerC, panicked,
                   sops, touched, lastPass>>

\* A slip in cleanup: case <-s.done does not return, the loop goes on.
cleanup_doneContinue ==
    /\ ~panicked
    /\ spc[Cleaner] = "select"
    /\ done
    /\ UNCHANGED vars

\* cleanup's select, case <-s.done: return.
cleanup_done ==
    /\ ~panicked
    /\ spc[Cleaner] = "select"
    /\ done
    /\ spc' = [spc EXCEPT ![Cleaner] = "exited"]
    /\ UNCHANGED <<now, engineRest, storeVars, slocal, mu, done, tickerC, tickerOn,
                   panicked, sops, touched, lastPass>>

\* cleanup's select, case now := <-s.ticker.C.
cleanup_tick ==
    /\ ~panicked
    /\ spc[Cleaner] = "select"
    /\ \E t \in tickerC :
          slocal' = [slocal EXCEPT ![Cleaner] = [NoLocal EXCEPT !.op = "cleanup", !.tick = t]]
    /\ tickerC' = {}
    /\ spc' = [spc EXCEPT ![Cleaner] = "lock"]
    /\ UNCHANGED <<now, engineRest, storeVars, mu, done, tickerOn, panicked,
                   sops, touched, lastPass>>

\* cleanup: s.mu.Lock().
cleanup_Lock ==
    /\ ~panicked
    /\ spc[Cleaner] = "lock"
    /\ Lock(Cleaner)
    /\ spc' = [spc EXCEPT ![Cleaner] = "crit"]
    /\ UNCHANGED <<now, engineRest, storeVars, slocal, done, tickerC, tickerOn, panicked,
                   sops, touched, lastPass>>

\* A slip in cleanup's test: >= for >.
ExpiredAtThreshold(tick, la) == tick - la >= MaxIdle

\* cleanup's test of one entry: now.Sub(lastAccess) > s.maxIdle.
Expired(tick, la) == tick - la > MaxIdle

\* A slip in cleanup: every entry is deleted, idle or not.
ExpiredKeysAll(tick) == {k \in Keys : lastAccess[k] # {}}

\* The keys a pass at tick time `tick` deletes.
ExpiredKeys(tick) == {k \in Keys : \E la \in lastAccess[k] : Expired(tick, la)}

\* cleanup, under the lock: the pass over s.lastAccess.
cleanup_pass ==
    /\ ~panicked
    /\ spc[Cleaner] = "crit"
    /\ LET gone == ExpiredKeys(slocal[Cleaner].tick) IN
          /\ limiters' = [k \in Keys |-> IF k \in gone THEN NoBucket ELSE limiters[k]]
          /\ lastAccess' = [k \in Keys |-> IF k \in gone THEN {} ELSE lastAccess[k]]
          /\ touched' = [k \in Keys |-> IF k \in gone THEN {} ELSE touched[k]]
          /\ slocal' = [slocal EXCEPT ![Cleaner].wrote = gone # {}]
          /\ lastPass' = {[tick |-> slocal[Cleaner].tick,
                           held |-> {k \in Keys : limiters[k] # NoBucket},
                           touched |-> touched,
                           left |-> {k \in Keys : limiters[k] # NoBucket} \ gone]}
    /\ spc' = [spc EXCEPT ![Cleaner] = "unlock"]
    /\ UNCHANGED <<now, engineRest, mu, done, tickerC, tickerOn, panicked, sops>>

\* cleanup: s.mu.Unlock(), and back to the select.
cleanup_Unlock ==
    /\ ~panicked
    /\ spc[Cleaner] = "unlock"
    /\ Unlock(Cleaner)
    /\ spc' = [spc EXCEPT ![Cleaner] = "select"]
    /\ slocal' = [slocal EXCEPT ![Cleaner] = NoLocal]
    /\ lastPass' = {}
    /\ UNCHANGED <<now, engineRest, storeVars, done, tickerC, tickerOn, panicked,
                   sops, touched>>

\* time.NewTicker(maxIdle / 2): the ticker's period, in ticks.
TickerPeriod == MaxIdle \div 2

\* Time passes.  Every TickerPeriod the running ticker sends the time on its
\* channel of capacity one, and drops the tick when the channel is full.
StoreTick ==
    /\ ~panicked
    /\ now < StoreMaxTime
    /\ now' = now + 1
    /\ tickerC' = IF tickerOn /\ tickerC = {} /\ (now + 1) % TickerPeriod = 0
                  THEN {now + 1} ELSE tickerC
    /\ UNCHANGED <<engineRest, storeVars, spc, slocal, mu, done, tickerOn, panicked,
                   sops, touched, lastPass>>

\* NewMemoryLimiterStore(maxIdle): empty maps, the ticker, the cleanup goroutine.
StoreInit ==
    /\ now = 0
    /\ mode = "immediate"
    /\ rl = [rps |-> 1, burst |-> 1, headers |-> TRUE]
    /\ timeout = 1
    /\ getLimits = [k \in Keys |-> <<1, 1>>]
    /\ limiters = [k \in Keys |-> NoBucket]
    /\ lastAccess = [k \in Keys |-> {}]
    /\ buckets = [id \in BucketIds |-> {}]
    /\ pc = [p \in Procs |-> "idle"]
    /\ req = [p \in Procs |-> NoReq]
    /\ resp = [p \in Procs |-> NoResp]
    /\ issued = [k \in Keys |-> 0]
    /\ started = 0
    /\ quiet = TRUE
    /\ LockInit

StoreNext ==
    \/ \E g \in Callers : Call(g)
    \/ \E g \in Callers : Get_Lock(g)
    \/ \E g \in Callers : Write_Lock(g)
    \/ \E g \in Callers : Get_body(g)
    \/ \E g \in Callers : Set_body(g)
    \/ \E g \in Callers : Delete_body(g)
    \/ \E g \in Callers : Clear_body(g)
    \/ \E g \in Callers : Op_Unlock(g)
    \/ \E g \in Callers : Close_done(g)
    \/ \E g \in Callers : Close_Stop(g)
    \/ cleanup_done
    \/ cleanup_tick
    \/ cleanup_Lock
    \/ cleanup_pass
    \/ cleanup_Unlock
    \/ StoreTick

StoreSpec == StoreInit /\ [][StoreNext]_vars

\* Fair scheduling: a goroutine that can run does run.  A goroutine inside a
\* store method goes on to its Unlock; the cleanup goroutine's select takes a
\* ready case; sync.Mutex does not starve a waiter (its starvation mode), so
\* the cleanup goroutine's Lock is strongly fair.
StoreFairness ==
    /\ WF_vars(cleanup_done)
    /\ SF_vars(cleanup_Lock)
    /\ WF_vars(cleanup_pass)
    /\ WF_vars(cleanup_Unlock)
    /\ \A g \in Callers :
          WF_vars(Get_body(g) \/ Set_body(g) \/ Delete_body(g) \/ Clear_body(g) \/ Op_Unlock(g))

StoreFairSpec == StoreSpec /\ StoreFairness

\* ------------------------------------- a shared store, and IsRateLimited
\* The limits of the other limiters that share the store (WithStore).
OtherLimits == {<<2, 2>>, <<1, 2>>}

\* The locals of the store's goroutines, which the engine leaves alone.
storeSide == <<spc, slocal, mu, done, tickerC, tickerOn, panicked, sops, touched, lastPass>>

\* Another RateLimiter on the same store serves a request for key k: its
\* getLimiter (the bucket, when absent, is built with ITS rps and burst), its
\* limiter.Allow(), and its response.
Other_Middleware(k) ==
    /\ Delivered
    /\ started < MaxReqs
    /\ started' = started + 1
    /\ quiet' = FALSE
    /\ \E l \in OtherLimits :
        LET g == Get(k)
            id == IF g.exists THEN g.limiter ELSE FreeId
            lim == IF g.exists THEN CHOOSE b \in buckets[id] : TRUE ELSE NewLimiter(l[1], l[2])
            r == ReserveN(lim, now, 0)
            lims == [limiters EXCEPT ![k] = id]
        IN /\ g.exists => l = CHOOSE m \in OtherLimits : TRUE   \* l is not used
           /\ limiters' = lims
           /\ lastAccess' = [lastAccess EXCEPT ![k] = {now}]
           /\ buckets' = Collect([buckets EXCEPT ![id] = {r.lim}], lims, req)
    /\ UNCHANGED <<now, mode, rl, timeout, getLimits, pc, req, resp, issued, storeSide, cond, gctx, reg>>

\* An evaluation of the condition, in cond: its result and (history) the
\* limiter as Reserve found it, as Reserve left it and as Cancel left it.
\* IsRateLimited's condition: key := keyFunc(c); store.Get(key); an absent
\* limiter is "not limited".
IsRateLimited_Get(p) ==
    /\ pc[p] = "idle"
    /\ Delivered
    /\ started < MaxReqs
    /\ started' = started + 1
    /\ quiet' = FALSE
    /\ \E k \in Keys :
        LET g == Get(k) IN
        /\ lastAccess' = g.lastAccess
        /\ IF g.exists
           THEN /\ pc' = [pc EXCEPT ![p] = "cond_reserve"]
                /\ req' = [req EXCEPT ![p] = [NoReq EXCEPT !.key = k, !.lim = g.limiter]]
                /\ cond' = [cond EXCEPT ![p] = {}]
                /\ UNCHANGED buckets
           ELSE /\ cond' = [cond EXCEPT ![p] = {[result |-> FALSE, before |-> {}, reserved |-> {},
                                                 after |-> {}, at |-> now]}]
                /\ UNCHANGED <<pc, req, buckets>>
    /\ UNCHANGED <<now, mode, rl, timeout, getLimits, resp, issued, limiters, storeSide, gctx, reg>>

\* IsRateLimited's condition: limiter.Reserve(); not OK is "limited".
IsRateLimited_Reserve(p) ==
    /\ Delivered
    /\ pc[p] = "cond_reserve"
    /\ LET r == ReserveN(LimOf(p), now, InfDuration) IN
          IF r.ok
          THEN /\ pc' = [pc EXCEPT ![p] = "cond_cancel"]
               /\ req' = [req EXCEPT ![p].timeToAct = r.timeToAct]
               /\ buckets' = WithLim(p, r.lim)
               /\ cond' = [cond EXCEPT ![p] = {[result |-> FALSE, before |-> {LimOf(p)},
                                                reserved |-> {r.lim}, after |-> {}, at |-> now]}]
          ELSE LET rq == [req EXCEPT ![p] = NoReq] IN
               /\ cond' = [cond EXCEPT ![p] = {[result |-> TRUE, before |-> {LimOf(p)},
                                                reserved |-> {LimOf(p)}, after |-> {LimOf(p)},
                                                at |-> now]}]
               /\ pc' = [pc EXCEPT ![p] = "idle"]
               /\ req' = rq
               /\ buckets' = Collect(buckets, limiters, rq)
    /\ UNCHANGED <<now, mode, rl, timeout, getLimits, resp, issued, started, quiet,
                   storeVars, storeSide, gctx, reg>>

\* IsRateLimited's condition: reservation.Delay(); reservation.Cancel();
\* return delay > 0.
IsRateLimited_Cancel(p) ==
    /\ Delivered
    /\ pc[p] = "cond_cancel"
    /\ LET delay == DelayFrom(req[p].timeToAct, now)
           lim == CancelAt(LimOf(p), req[p].timeToAct, now)
           rq == [req EXCEPT ![p] = NoReq]
           c == CHOOSE e \in cond[p] : TRUE
       IN /\ cond' = [cond EXCEPT ![p] = {[c EXCEPT !.result = delay > 0, !.after = {lim},
                                                    !.at = now]}]
          /\ pc' = [pc EXCEPT ![p] = "idle"]
          /\ req' = rq
          /\ buckets' = Collect(WithLim(p, lim), limiters, rq)
    /\ UNCHANGED <<now, mode, rl, timeout, getLimits, resp, issued, started, quiet,
                   storeVars, storeSide, gctx, reg>>

\* NewRateLimiter(rps, burst).WithStore(store).Middleware() with positive limits,
\* on an empty store that other limiters and IsRateLimited(store, ...) share.
SharedInit == Init /\ mode = "immediate" /\ rl.rps > 0 /\ rl.burst > 0 /\ rl.headers

SharedNext ==
    \/ \E p \in Procs : Request(p)
    \/ \E p \in Procs : getLimiter_Set(p)
    \/ \E p \in Procs : Allow(p)
    \/ \E p \in Procs : setHeaders_next(p)
    \/ \E p \in Procs : handleRateLimit_Reserve(p)
    \/ \E p \in Procs : handleRateLimit_Cancel(p)
    \/ \E p \in Procs : Return(p)
    \/ Tick
    \/ \E k \in Keys : Other_Middleware(k)
    \/ \E p \in Procs : IsRateLimited_Get(p)
    \/ \E p \in Procs : IsRateLimited_Reserve(p)
    \/ \E p \in Procs : IsRateLimited_Cancel(p)

SharedSpec == SharedInit /\ [][SharedNext]_vars

\* ------------------------------------------------------ the key functions
\* What the model's requests can carry.
ClientIPs == {"192.0.2.1", "192.0.2.2"}
Paths == {"/a", "/b"}
UserIDs == {"alice", "bob"}
\* A value of c.Keys with its dynamic type: a string, or something else.
String(v) == [type |-> "string", val |-> v]
NotAString == [type |-> "int", val |-> "123"]

\* Everything but the request's context.
ctxRest == <<now, engineVars, storeVars, storeSide, cond, reg>>

\* A request arrives: a new gin.Context with no keys.
NewContext ==
    /\ \E ip \in ClientIPs, path \in Paths :
          gctx' = [ip |-> ip, path |-> path, keys |-> [n \in {"user_id", "ginx.user_id"} |-> {}],
                   by |-> "", key |-> {}]
    /\ UNCHANGED ctxRest

\* c.Set(name, v).
Set(c, name, v) == [c EXCEPT !.keys[name] = {v}, !.by = "", !.key = {}]

\* SetUserID(c, userID): c.Set(string(userIDKey), userID).
SetUserID ==
    /\ gctx.ip # ""
    /\ \E id \in UserIDs : gctx' = Set(gctx, "ginx.user_id", String(id))
    /\ UNCHANGED ctxRest

\* The application's own c.Set("user_id", v), v a string or not.
Set_user_id ==
    /\ gctx.ip # ""
    /\ \E v \in {String(id) : id \in UserIDs} \cup {NotAString} :
          gctx' = Set(gctx, "user_id", v)
    /\ UNCHANGED ctxRest

\* KeyByIP()(c).
KeyByIP ==
    /\ gctx.ip # ""
    /\ gctx' = [gctx EXCEPT !.by = "KeyByIP", !.key = {gctx.ip}]
    /\ UNCHANGED ctxRest

\* KeyByUserID()(c): c.Get("user_id"), a string: "user:" + id; else c.ClientIP().
KeyByUserID ==
    /\ gctx.ip # ""
    /\ LET userID == gctx.keys["user_id"]
           key == IF \E v \in userID : v.type = "string"
                  THEN "user:" \o (CHOOSE v \in userID : TRUE).val
                  ELSE gctx.ip
       IN gctx' = [gctx EXCEPT !.by = "KeyByUserID", !.key = {key}]
    /\ UNCHANGED ctxRest

\* KeyByPath()(c): fmt.Sprintf("%s:%s", c.ClientIP(), c.Request.URL.Path).
KeyByPath ==
    /\ gctx.ip # ""
    /\ gctx' = [gctx EXCEPT !.by = "KeyByPath", !.key = {gctx.ip \o ":" \o gctx.path}]
    /\ UNCHANGED ctxRest

KeyInit == StoreInit

KeyNext ==
    \/ NewContext
    \/ SetUserID
    \/ Set_user_id
    \/ KeyByIP
    \/ KeyByUserID
    \/ KeyByPath

KeySpec == KeyInit /\ [][KeyNext]_vars

\* ------------------------------------------- the stores and their shutdown
StoreIds == 1..NumStores

\* Everything but the stores and the registry.
regRest == <<now, engineVars, storeVars, storeSide, cond, gctx>>

\* NewMemoryLimiterStore(maxIdle): the maps, the ticker, go store.cleanup().
\* held: the application keeps the store (or the RateLimiter that owns it);
\* not held: the store made inside RateLimit(rps, burst) or RateLimitWithWait,
\* which return the middleware alone.  The constructor enters the store in no
\* registry.
NewMemoryLimiterStore(s) ==
    /\ ~reg.panicked
    /\ ~reg.stores[s].made
    /\ \A t \in 1..(s - 1) : reg.stores[t].made
    /\ \E held \in BOOLEAN :
          reg' = [reg EXCEPT !.stores[s] = [made |-> TRUE, held |-> held, done |-> FALSE,
                                            task |-> "running"]]
    /\ UNCHANGED regRest

\* MemoryLimiterStore.Close on one store: close(s.done), which panics on a
\* closed channel; s.ticker.Stop().
CloseStore(r, s) ==
    IF r.stores[s].done THEN [r EXCEPT !.panicked = TRUE]
    ELSE [r EXCEPT !.stores[s].done = TRUE]

\* The application closes a store it holds.
MemoryLimiterStore_Close(s) ==
    /\ ~reg.panicked
    /\ reg.stores[s].made /\ reg.stores[s].held
    /\ reg' = CloseStore(reg, s)
    /\ UNCHANGED regRest

\* NewRateLimiter(rps, burst): store: NewMemoryLimiterStore(0).  reg.rl is
\* this limiter: its store field and (history) its default store and whether
\* its Close has returned.
NewRateLimiter(s) ==
    /\ ~reg.panicked
    /\ reg.rl.store = 0
    /\ ~reg.stores[s].made
    /\ \A t \in 1..(s - 1) : reg.stores[t].made
    /\ reg' = [reg EXCEPT !.stores[s] = [made |-> TRUE, held |-> FALSE, done |-> FALSE,
                                         task |-> "running"],
                          !.rl = [store |-> s, default |-> s, closed |-> FALSE]]
    /\ UNCHANGED regRest

\* rl.WithStore(store), store one the application holds: rl.store = store.
WithStore(s) ==
    /\ ~reg.panicked
    /\ reg.rl.store # 0 /\ ~reg.rl.closed
    /\ reg.stores[s].made /\ reg.stores[s].held /\ s # reg.rl.store
    /\ reg' = [reg EXCEPT !.rl.store = s]
    /\ UNCHANGED regRest

\* rl.Close(): return rl.store.Close().
RateLimiter_Close ==
    /\ ~reg.panicked
    /\ reg.rl.store # 0 /\ ~reg.rl.closed
    /\ reg' = [CloseStore(reg, reg.rl.store) EXCEPT !.rl.closed = TRUE]
    /\ UNCHANGED regRest

\* cleanup's select, case <-s.done: the reclamation task of store s returns.
cleanup_return(s) ==
    /\ ~reg.panicked
    /\ reg.stores[s].done /\ reg.stores[s].task = "running"
    /\ reg' = [reg EXCEPT !.stores[s].task = "exited"]
    /\ UNCHANGED regRest

\* Close applied to each store of a set, one after the other.
RECURSIVE CloseEach(_, _)
CloseEach(r, S) ==
    IF S = {} THEN r
    ELSE LET s == CHOOSE x \in S : TRUE IN CloseEach(CloseStore(r, s), S \ {s})

\* CleanupAll(): the registered set is snapshotted and the registry cleared
\* under the registry's lock, then each snapshotted store is closed.
CleanupAll ==
    /\ ~reg.panicked
    /\ reg.cleanups < MaxCleanups
    /\ LET snapshot == reg.registry IN
          reg' = CloseEach([reg EXCEPT !.registry = {}, !.cleanups = @ + 1], snapshot)
    /\ UNCHANGED regRest

RegInit == StoreInit

RegNext ==
    \/ \E s \in StoreIds : NewMemoryLimiterStore(s)
    \/ \E s \in StoreIds : MemoryLimiterStore_Close(s)
    \/ \E s \in StoreIds : cleanup_return(s)
    \/ CleanupAll
    \/ \E s \in StoreIds : NewRateLimiter(s)
    \/ \E s \in StoreIds : WithStore(s)
    \/ RateLimiter_Close

RegSpec == RegInit /\ [][RegNext]_vars

\* ------------------------------------------- the engine and idle eviction
\* Time passes, long enough for entries to go idle.
IdleTick ==
    /\ Delivered
    /\ now < EvictMaxTime
    /\ now' = now + 1
    /\ quiet' = FALSE
    /\ UNCHANGED <<mode, rl, timeout, getLimits, buckets, pc, req, resp, issued, started,
                   storeVars, lockVars>>

\* cleanup, one pass under s.mu, with the tick it took from s.ticker.C (the
\* ticker's time when it sent it, which may be some time ago): the idle
\* entries leave both maps.
cleanup_evict ==
    /\ Delivered
    /\ \E tick \in 1..now :
        /\ tick % TickerPeriod = 0
        /\ LET gone == ExpiredKeys(tick)
               lims == [k \in Keys |-> IF k \in gone THEN NoBucket ELSE limiters[k]]
           IN /\ gone # {}
              /\ limiters' = lims
              /\ lastAccess' = [k \in Keys |-> IF k \in gone THEN {} ELSE lastAccess[k]]
              /\ buckets' = Collect(buckets, lims, req)
    /\ UNCHANGED <<now, mode, rl, timeout, getLimits, pc, req, resp, issued, started, quiet,
                   lockVars>>

\* NewRateLimiter(rps, burst).WithoutHeaders().Middleware() with positive
\* limits, on its store NewMemoryLimiterStore(maxIdle).
EvictInit ==
    /\ Init
    /\ mode = "immediate" /\ ~rl.headers
    /\ <<rl.rps, rl.burst>> \in {<<1, 1>>, <<2, 2>>, <<1, 2>>}

EvictNext ==
    \/ \E p \in Procs : Request(p)
    \/ \E p \in Procs : getLimiter_Set(p)
    \/ \E p \in Procs : Allow(p)
    \/ \E p \in Procs : handleRateLimit_Reserve(p)
    \/ \E p \in Procs : handleRateLimit_Cancel(p)
    \/ \E p \in Procs : Return(p)
    \/ IdleTick
    \/ cleanup_evict

EvictSpec == EvictInit /\ [][EvictNext]_vars

\* ------------------------------------------------------------------ claims
\* The limits in force for key k, as configured: the static pair, or what the
\* dynamic resolver returns.
Effective(k) == IF mode = "dynamic" THEN getLimits[k] ELSE <<rl.rps, rl.burst>>

\* A request that went through the limiter (no skip) and has its response.
Decided(p) == pc[p] = "done" /\ ~req[p].skipped

\* C1: concurrent admission checks for one key are all decided against one and
\* the same bucket: no two requests in flight for a key hold different limiters.
C1_OneBucketPerKey ==
    \A p, q \in Procs :
        (req[p].lim # NoBucket /\ req[q].lim # NoBucket /\ req[p].key = req[q].key)
            => req[p].lim = req[q].lim

\* C2: static rate > 0 and burst B > 0, requests for one key issued one after
\* another with no time elapsing: the first B are admitted, every later one
\* is denied with 429.
C2_BurstThenDeny ==
    \A p \in Procs :
        (Decided(p) /\ quiet /\ mode = "immediate" /\ rl.rps > 0 /\ rl.burst > 0)
            => IF req[p].ord < rl.burst THEN resp[p].status = 200 /\ resp[p].nexts = 1
               ELSE resp[p].status = 429 /\ resp[p].nexts = 0

C2_Witness ==
    \E p \in Procs :
        /\ Decided(p) /\ quiet /\ mode = "immediate" /\ rl.rps > 0
        /\ rl.burst = 2 /\ req[p].ord = 2 /\ resp[p].status = 429

C4_CloseNeverPanics == ~panicked

\* C5: no two goroutines are inside the store's maps at the same time when one
\* of them writes; so also Get's write of lastAccess on a hit.
InSection(g) == spc[g] \in {"crit", "unlock"}
WritesMaps(g) ==
    IF spc[g] = "unlock" THEN slocal[g].wrote
    ELSE IF slocal[g].op = "Get" THEN limiters[slocal[g].key] # NoBucket
    ELSE IF slocal[g].op = "cleanup" THEN ExpiredKeys(slocal[g].tick) # {}
    ELSE TRUE
C5_NoDataRace ==
    \A g, h \in Goroutines :
        (g # h /\ InSection(g) /\ InSection(h)) => ~(WritesMaps(g) \/ WritesMaps(h))

C5_Witness ==
    \E g, h \in Callers :
        /\ g # h
        /\ slocal[g].op = "Get" /\ spc[g] = "unlock" /\ slocal[g].wrote
        /\ slocal[h].op = "Get" /\ spc[h] = "lock"
        /\ limiters[slocal[h].key] # NoBucket

\* C6: effective rate <= 0 and burst <= 0: every request for the key is
\* admitted and carries no X-RateLimit-* header.
C6_UnlimitedAdmitsAll ==
    \A p \in Procs :
        (Decided(p) /\ Effective(req[p].key)[1] <= 0 /\ Effective(req[p].key)[2] <= 0)
            => /\ resp[p].status = 200 /\ resp[p].nexts = 1
               /\ resp[p].limit = {} /\ resp[p].remaining = {} /\ resp[p].reset = {}

C8_ZeroBurstHeaders ==
    \A p \in Procs :
        (Decided(p) /\ mode = "immediate" /\ rl.headers /\ resp[p].status = 429
                    /\ rl.rps > 0 /\ rl.burst <= 0)
            => resp[p].limit = {0} /\ resp[p].remaining = {0} /\ resp[p].retryAfter = {1}

\* C9: rate <= 0 and burst > 0: the key is limited as if the rate were 1 per
\* second: X-RateLimit-Limit reports 1, and a request that comes a second or
\* more after the bucket's last change is admitted.
C9_RateClampedToOne ==
    \A p \in Procs :
        (mode = "immediate" /\ rl.headers /\ rl.rps <= 0 /\ rl.burst > 0)
            => /\ (Decided(p) /\ resp[p].status = 200) => resp[p].limit = {1}
               /\ (pc[p] = "allow" /\ now - LimOf(p).last >= TicksPerSec)
                    => ReserveN(LimOf(p), now, 0).ok

CeilSeconds(d) == (d + TicksPerSec - 1) \div TicksPerSec

\* The bucket the store maps key k to.
BucketOf(k) == CHOOSE b \in buckets[limiters[k]] : TRUE

\* C11: a denial for which handleRateLimit previewed a (finite) delay emits, in
\* Retry-After and in the body's retry_after, the delay in seconds rounded up
\* to a whole second, and at least 1.
C11_RetryAfterCeiling ==
    \A p \in Procs :
        (Decided(p) /\ mode = "immediate" /\ rl.rps > 0 /\ resp[p].status = 429
                    /\ resp[p].bodyRetry # {})
            => LET delay == DelayFrom(req[p].timeToAct, now)
                   secs == Max(CeilSeconds(delay), 1)
               IN  /\ resp[p].bodyRetry = {secs}
                   /\ rl.headers => resp[p].retryAfter = {secs}

\* C12: a denial by wait-mode timeout emits the Retry-After that an
\* immediate-mode denial emits against the same bucket: the previewed delay of
\* the bucket, whatever the wait timeout.
C12_WaitRetryAfterMatches ==
    \A p \in Procs :
        (Decided(p) /\ mode = "wait" /\ rl.rps > 0 /\ rl.burst > 0 /\ resp[p].status = 429
                    /\ ~req[p].clientGone)
            => LET r == ReserveN(BucketOf(req[p].key), now, InfDuration)
               IN  resp[p].retryAfter = {retryAfter(DelayFrom(r.timeToAct, now))}

\* C13: a later request for a key whose bucket exists and whose resolver now
\* returns other values than the bucket has: the bucket has the resolver's
\* (rate, burst) before the request is decided, and the response's
\* X-RateLimit-Limit reports the new rate.
C13_DynamicLimitsFollowResolver ==
    [][\A p \in Procs :
        /\ (mode = "dynamic" /\ pc[p] = "idle" /\ pc'[p] = "allow"
                /\ <<BucketOf(req'[p].key).limit, BucketOf(req'[p].key).burst>>
                        # getLimits[req'[p].key])
              => LET b == CHOOSE x \in buckets'[req'[p].lim] : TRUE
                     l == getLimits[req'[p].key]
                 IN  b.limit = l[1] /\ b.burst = l[2]
        /\ (mode = "dynamic" /\ pc[p] = "allow" /\ pc'[p] = "done" /\ req[p].ord > 0
                /\ <<LimOf(p).limit, LimOf(p).burst>> # getLimits[req[p].key])
              => resp'[p].limit = {getLimits[req[p].key][1]}]_vars

\* C14: when getRateLimiter finds the key's bucket and the resolver returns
\* other limits than the bucket has, the bucket takes the new limits, keeps its
\* accumulated tokens, and stays the same object.
C14_UpdateKeepsTokens ==
    [][\A p \in Procs : \A k \in Keys :
        (mode = "dynamic" /\ pc[p] = "idle" /\ pc'[p] = "allow" /\ req'[p].key = k
            /\ <<BucketOf(k).limit, BucketOf(k).burst>> # getLimits[k])
          => LET b == CHOOSE x \in buckets'[req'[p].lim] : TRUE
             IN  /\ req'[p].lim = limiters[k] /\ limiters'[k] = limiters[k]
                 /\ b.tokens = BucketOf(k).tokens
                 /\ <<b.limit, b.burst>> = getLimits[k]]_vars

\* C15: with a resolver that returns one rate for one subject and another for
\* every other key, every response carries X-RateLimit-Limit = the rate the
\* resolver returns for the request's key.
C15_DynamicLimitHeader ==
    \A p \in Procs :
        (Decided(p) /\ mode = "dynamic" /\ getLimits[1][1] # getLimits[2][1])
            => resp[p].limit = {getLimits[req[p].key][1]}

\* C17: a request the skip predicate matches is admitted, and the limiter
\* state is untouched: no bucket changes, no store entry is created or
\* refreshed, and the response carries no quota header.
C17_SkipTouchesNothing ==
    [][\A p \in Procs :
        (pc[p] = "idle" /\ pc'[p] = "done" /\ req'[p].skipped)
          => /\ resp'[p].status = 200 /\ resp'[p].nexts = 1
             /\ buckets' = buckets /\ limiters' = limiters /\ lastAccess' = lastAccess
             /\ resp'[p].limit = {} /\ resp'[p].remaining = {} /\ resp'[p].reset = {}
             /\ resp'[p].retryAfter = {}]_vars

\* A skipped request for a key whose bucket is exhausted and whose entry was
\* last accessed earlier.
C17_Witness ==
    \E p \in Procs :
        /\ pc[p] = "done" /\ req[p].skipped /\ resp[p].status = 200
        /\ limiters[req[p].key] # NoBucket
        /\ rl.burst > 0
        /\ Tokens(BucketOf(req[p].key), now) < TicksPerSec
        /\ lastAccess[req[p].key] # {now}

\* C18: Clear empties the store in one step under the lock: when it has
\* written, every entry the store held is gone, and stays gone while Clear
\* holds the lock; an absent key becomes present only by a Set of that key,
\* and until then Get reports it absent.
C18_ClearAtomic ==
    [][/\ \A g \in Callers :
            (slocal[g].op = "Clear" /\ spc[g] = "crit" /\ spc'[g] = "unlock")
              => \A k \in Keys : limiters'[k] = NoBucket /\ lastAccess'[k] = {}
       /\ \A g \in Callers :
            (slocal[g].op = "Clear" /\ spc[g] = "unlock")
              => \A k \in slocal[g].had : limiters[k] = NoBucket /\ lastAccess[k] = {}
       /\ \A k \in Keys :
            (limiters[k] = NoBucket /\ limiters'[k] # NoBucket)
              => \E g \in Callers : /\ slocal[g].op = "Set" /\ slocal[g].key = k
                                    /\ spc[g] = "crit" /\ spc'[g] = "unlock"
       /\ \A g \in Callers :
            (slocal[g].op = "Get" /\ spc[g] = "crit" /\ spc'[g] = "unlock")
              => slocal'[g].found = limiters[slocal[g].key]]_vars

\* A Clear that has just removed every key's entry at once.
C18_Witness ==
    \E g \in Callers :
        /\ slocal[g].op = "Clear" /\ spc[g] = "unlock" /\ slocal[g].had = Keys
        /\ \A k \in Keys : limiters[k] = NoBucket

\* C19: on every response that carries quota headers (rate and burst
\* positive), X-RateLimit-Remaining is in 0..burst, whatever the interleaving
\* of the requests for the key.
C19_RemainingInRange ==
    \A p \in Procs :
        (Decided(p) /\ rl.rps > 0 /\ rl.burst > 0)
            => \A v \in resp[p].remaining : v >= 0 /\ v <= rl.burst

\* C20: headers enabled, rate and burst positive: every response of the
\* immediate and of the wait middleware, admitted or denied, carries
\* X-RateLimit-Limit, -Remaining and -Reset, and a denied one reports
\* X-RateLimit-Remaining = 0.
C20_HeadersOnEveryResponse ==
    \A p \in Procs :
        (Decided(p) /\ mode \in {"immediate", "wait"} /\ rl.headers
                    /\ rl.rps > 0 /\ rl.burst > 0)
            => /\ resp[p].limit # {} /\ resp[p].remaining # {} /\ resp[p].reset # {}
               /\ resp[p].status = 429 => resp[p].remaining = {0}

\* C21: the quota headers and Retry-After are toggled independently: a denial
\* of a limiter without quota headers, for which a delay was previewed, still
\* carries Retry-After, and carries no X-RateLimit-* header.
C21_RetryAfterWithoutQuotaHeaders ==
    \A p \in Procs :
        (Decided(p) /\ mode = "immediate" /\ ~rl.headers /\ resp[p].status = 429
                    /\ resp[p].bodyRetry # {})
            => /\ resp[p].retryAfter = resp[p].bodyRetry
               /\ resp[p].limit = {} /\ resp[p].remaining = {} /\ resp[p].reset = {}

\* C22: every denial's body has the error string and the retry-after seconds,
\* in immediate mode, on a wait-mode timeout and under dynamic limits (rate
\* and burst positive); a Retry-After header, when there is one, equals the
\* body's retry_after.
C22_DenialBody ==
    \A p \in Procs :
        (Decided(p) /\ resp[p].status = 429 /\ ~req[p].clientGone
                    /\ Effective(req[p].key)[1] > 0 /\ Effective(req[p].key)[2] > 0)
            => /\ resp[p].error
               /\ resp[p].bodyRetry # {}
               /\ resp[p].retryAfter # {} => resp[p].retryAfter = resp[p].bodyRetry

\* The tokens a bucket has at time t when one token taken from it by a
\* reservation is given back.
TokensGivenBack(lim, t) == Min(Advance(lim, t) + TicksPerSec, lim.burst * TicksPerSec)

\* C28: an immediate-mode denial leaves the key's bucket as if the request had
\* not been made: when handleRateLimit returns, the token its preview took is
\* back in the bucket.
C28_DenialLeavesBucket ==
    [][\A p \in Procs :
        (pc[p] = "cancel" /\ pc'[p] = "done" /\ rl.rps > 0 /\ rl.burst > 0
                /\ limiters[req[p].key] = req[p].lim)
          => LET after == CHOOSE b \in buckets'[req[p].lim] : TRUE
             IN  Tokens(after, now) = TokensGivenBack(LimOf(p), now)]_vars

\* C29: a wait-mode request that ends in denial has consumed no token: a Wait
\* that fails at once leaves the bucket as it was, and a blocked Wait that is
\* denied gives its reserved token back.
C29_WaitDenialConsumesNothing ==
    [][\A p \in Procs :
        /\ (pc[p] = "wait" /\ pc'[p] = "done" /\ resp'[p].status = 429
                /\ limiters[req[p].key] = req[p].lim)
              => buckets'[req[p].lim] = buckets[req[p].lim]
        /\ (pc[p] = "sleep" /\ pc'[p] = "done" /\ resp'[p].status = 429
                /\ rl.rps > 0 /\ limiters[req[p].key] = req[p].lim)
              => LET after == CHOOSE b \in buckets'[req[p].lim] : TRUE
                 IN  Tokens(after, now) = TokensGivenBack(LimOf(p), now)]_vars

\* C25: when Close returns, with no other call in progress, the keys the store
\* held when Close began are absent.
C25_CloseClearsEntries ==
    [][\A g \in Callers :
        (spc[g] = "stop" /\ spc'[g] = "idle" /\ \A h \in Callers \ {g} : spc[h] = "idle")
          => \A k \in slocal[g].had : limiters'[k] = NoBucket /\ lastAccess'[k] = {}]_vars

\* C30: once Close has returned the cleanup goroutine takes no tick and
\* deletes no entry any more, also when a tick was pending when Close was
\* called.
C30_NoPassAfterClose ==
    [][(~tickerOn /\ ~panicked)
          => /\ ~(spc[Cleaner] = "select" /\ spc'[Cleaner] = "lock")
             /\ (spc[Cleaner] = "crit" /\ spc'[Cleaner] = "unlock") => limiters' = limiters]_vars

\* X-RateLimit-Reset computed from the limits of the bucket (positive), in
\* Unix seconds.
BucketReset(lim, remaining) ==
    IF lim.burst - remaining <= 0 THEN (now + TicksPerSec) \div TicksPerSec
    ELSE (now + TruncDiv((lim.burst - remaining) * TicksPerSec, lim.limit)) \div TicksPerSec

\* C23: the response's X-RateLimit-Limit is the rate of the bucket that
\* decided the request, and X-RateLimit-Reset is computed from that bucket's
\* capacity and rate, whatever the limiter's own configuration.
C23_HeadersFromBucket ==
    [][\A p \in Procs :
        (pc[p] = "headers" /\ pc'[p] = "done")
          => /\ resp'[p].limit = {LimOf(p).limit}
             /\ \A n \in resp'[p].remaining : resp'[p].reset = {BucketReset(LimOf(p), n)}]_vars

\* C27: when nothing else touched the bucket during an evaluation of the
\* IsRateLimited condition, the bucket has after it the tokens it would have
\* had without it.
C27_ConditionConsumesNothing ==
    [][\A p \in Procs :
        (pc[p] = "cond_cancel" /\ pc'[p] = "idle" /\ \E c \in cond[p] : c.reserved = {LimOf(p)})
          => \A c \in cond'[p] : \A b \in c.before, a \in c.after :
                Tokens(a, now) = Tokens(b, now)]_vars

\* C26: the by-user key of a request whose subject SetUserID stored is
\* "user:" and the id; with no subject, or a stored value that is not a
\* string, it is the client's address.
C26_KeyByUserID ==
    (gctx.by = "KeyByUserID")
        => LET subject == gctx.keys["ginx.user_id"]
               raw == gctx.keys["user_id"]
           IN /\ \A v \in subject : gctx.key = {"user:" \o v.val}
              /\ (subject = {} /\ \A v \in raw : v.type # "string") => gctx.key = {gctx.ip}

\* C24: CleanupAll leaves no constructed store open, and does not panic,
\* whether or not a store exists and however often it is called.
C24_CleanupAllClosesEveryStore ==
    [][(reg'.cleanups = reg.cleanups + 1)
          => /\ ~reg'.panicked
             /\ \A s \in StoreIds : reg.stores[s].made => reg'.stores[s].done]_vars

\* C39: whenever nobody holds s.mu, s.limiters and s.lastAccess have the same
\* keys.
C39_MapsHaveSameKeys ==
    (mu.writer = Nobody /\ mu.readers = {})
        => \A k \in Keys : (limiters[k] = NoBucket) <=> (lastAccess[k] = {})

\* Nobody holds s.mu, all the calls made have returned, one key is present
\* and one is absent.
C39_Witness ==
    /\ mu.writer = Nobody /\ mu.readers = {}
    /\ sops = MaxOps /\ \A g \in Callers : spc[g] = "idle"
    /\ \E k \in Keys : limiters[k] # NoBucket /\ lastAccess[k] # {}
    /\ \E k \in Keys : limiters[k] = NoBucket /\ lastAccess[k] = {}

\* C31: once Close has closed s.done, the store's one cleanup goroutine
\* eventually returns (or the process has died of a panic), whatever store
\* operations are in flight.
C31_CleanupTerminates == done ~> (spc[Cleaner] = "exited" \/ panicked)

\* The cleanup goroutine has returned while a caller is inside a store method.
C31_Witness ==
    /\ done /\ spc[Cleaner] = "exited" /\ ~panicked
    /\ \E g \in Callers : spc[g] \in {"lock", "crit", "unlock"}

\* C38: when RateLimiter.Close returns, the store the limiter was built with
\* is closed as well as the store it was given by WithStore.
C38_CloseStopsDefaultStore ==
    [][(~reg.rl.closed /\ reg'.rl.closed /\ ~reg'.panicked)
          => /\ reg'.stores[reg.rl.default].done
             /\ reg'.stores[reg.rl.store].done]_vars

\* C35: requests for one key that run concurrently on an empty store while no
\* time passes: the requests limiter.Allow() has admitted and that are about
\* to run the handler are never more than the burst.
C35_AtMostBurstAdmitted ==
    \A k \in Keys :
        (now = 0 /\ mode = "immediate" /\ rl.rps > 0 /\ rl.burst > 0)
            => Cardinality({q \in Procs : pc[q] = "headers" /\ req[q].key = k}) <= rl.burst

\* C33: when handleRateLimit's Reserve() is not OK the request is denied with
\* the error alone: no retry_after in the body, no Retry-After header, the
\* handler not called, the bucket untouched.
C33_NotObtainableMinimalBody ==
    [][\A p \in Procs :
        (pc[p] = "reserve" /\ pc'[p] # "reserve" /\ ~ReserveN(LimOf(p), now, InfDuration).ok)
          => /\ pc'[p] = "done"
             /\ resp'[p].status = 429 /\ resp'[p].error /\ resp'[p].nexts = 0
             /\ resp'[p].bodyRetry = {} /\ resp'[p].retryAfter = {} /\ resp'[p].bodyTimeout = {}
             /\ (limiters[req[p].key] = req[p].lim => buckets'[req[p].lim] = buckets[req[p].lim])]_vars

\* A request denied by a limiter of burst 0, whose Reserve() is never OK.
C33_Witness ==
    \E p \in Procs :
        /\ Decided(p) /\ mode = "immediate" /\ rl.rps > 0 /\ rl.burst = 0
        /\ resp[p].status = 429 /\ resp[p].error /\ resp[p].bodyRetry = {}

\* C34: burst B > 0, requests for a fresh key one after another with no time
\* elapsing: the k-th admitted response (k = 1..B) has
\* X-RateLimit-Remaining = B - k.
C34_RemainingCountsDown ==
    \A p \in Procs :
        (Decided(p) /\ quiet /\ mode = "immediate" /\ rl.headers /\ rl.burst > 0
                    /\ resp[p].status = 200)
            => /\ req[p].ord + 1 <= rl.burst
               /\ resp[p].remaining = {rl.burst - (req[p].ord + 1)}

\* The second admitted request of a key with burst 2: Remaining is 0.
C34_Witness ==
    \E p \in Procs :
        /\ Decided(p) /\ quiet /\ mode = "immediate" /\ rl.headers /\ rl.burst = 2
        /\ resp[p].status = 200 /\ req[p].ord = 1 /\ resp[p].remaining = {0}

\* The bucket of key k is full at the present time.
FullNow(k) == Tokens(BucketOf(k), now) = BucketOf(k).burst * TicksPerSec

\* C36, as claimed: for every rate, burst and idle threshold, an entry that
\* reclamation removes has a bucket refilled to capacity (even taking only the
\* buckets that owed nothing and were not used after the entry's last Get or
\* Set).
C36_EvictedBucketIsFull ==
    [][\A k \in Keys :
        (/\ limiters[k] # NoBucket /\ limiters'[k] = NoBucket
         /\ BucketOf(k).tokens >= 0
         /\ \A la \in lastAccess[k] : BucketOf(k).last <= la)
            => FullNow(k)]_vars

\* C36, amended: an entry that reclamation removes has a full bucket when the
\* burst is at most what the rate refills in maxIdle, the bucket owed nothing
\* and it was not used after the entry's last Get or Set.
C36_EvictedBucketIsFullWhenRefillFits ==
    [][\A k \in Keys :
        (/\ limiters[k] # NoBucket /\ limiters'[k] = NoBucket
         /\ rl.rps > 0 /\ rl.burst * TicksPerSec <= rl.rps * MaxIdle
         /\ BucketOf(k).tokens >= 0
         /\ \A la \in lastAccess[k] : BucketOf(k).last <= la)
            => FullNow(k)]_vars

\* A key whose bucket was emptied has been evicted, under limits whose refill
\* fits in maxIdle, and no request is in flight.
C36_Witness ==
    \E k \in Keys :
        /\ rl.rps = 1 /\ rl.burst = 1 /\ mode = "immediate"
        /\ issued[k] >= 2 /\ limiters[k] = NoBucket
        /\ \A p \in Procs : pc[p] = "idle"

\* The other requests that are between Reserve and Cancel of a preview
\* (handleRateLimit, IsRateLimited) on the bucket request p holds.
Previewing(p) ==
    {q \in Procs \ {p} : pc[q] \in {"cancel", "cond_cancel"} /\ req[q].lim = req[p].lim}

\* The tokens (in units) p's bucket has now, the previews in flight set aside.
TokensBesidePreviews(p) ==
    Min(Advance(LimOf(p), now) + Cardinality(Previewing(p)) * TicksPerSec,
        LimOf(p).burst * TicksPerSec)

\* C37: a preview in flight on the same bucket changes nothing for a
\* concurrent request: the request is not denied while a token is available,
\* and its X-RateLimit-Remaining is what it is without the preview.
C37_PreviewInvisible ==
    [][\A p \in Procs :
        /\ (pc[p] = "allow" /\ pc'[p] = "reserve") => TokensBesidePreviews(p) < TicksPerSec
        /\ (pc[p] = "headers" /\ pc'[p] = "done")
              => resp'[p].remaining = {TruncDiv(TokensBesidePreviews(p), TicksPerSec)}]_vars

\* The key of the request whose goroutine p takes the step.
StepKey(p) == IF pc[p] = "idle" THEN req'[p].key ELSE req[p].key

\* C32: a step of a request for key a leaves every other key's store entry,
\* bucket and requests as they are, and what a request is answered (admitted
\* or not, X-RateLimit-Remaining) is determined by the bucket of its own key.
C32_KeysIndependent ==
    [][\A p \in Procs :
        /\ (pc'[p] # pc[p])
            => \A b \in Keys \ {StepKey(p)} :
                /\ limiters'[b] = limiters[b] /\ lastAccess'[b] = lastAccess[b]
                /\ issued'[b] = issued[b]
                /\ limiters[b] # NoBucket => buckets'[limiters[b]] = buckets[limiters[b]]
                /\ \A q \in Procs :
                     req[q].key = b
                       => /\ pc'[q] = pc[q] /\ req'[q] = req[q] /\ resp'[q] = resp[q]
                          /\ req[q].lim # NoBucket => buckets'[req[q].lim] = buckets[req[q].lim]
        /\ (pc[p] = "idle" /\ pc'[p] \in {"allow", "wait"})
            => req'[p].lim = limiters[req'[p].key]
        /\ (pc[p] = "allow" /\ pc'[p] # "allow")
            => ((pc'[p] = "headers" \/ (pc'[p] = "done" /\ resp'[p].status = 200))
                    <=> ReserveN(LimOf(p), now, 0).ok)
        /\ (pc[p] = "headers" /\ pc'[p] = "done")
            => resp'[p].remaining = {TruncDiv(Tokens(LimOf(p), now), TicksPerSec)}]_vars

\* Both keys have an entry, key 2's bucket has served a request at an earlier
\* time, and a request for key 1 has just been answered.
C32_Witness ==
    /\ limiters[1] # NoBucket /\ limiters[2] # NoBucket
    /\ issued[2] > 0 /\ \E la \in lastAccess[2] : la < now
    /\ \E p \in Procs : Decided(p) /\ req[p].key = 1

\* The ticks until the bucket has a token for one more request.
NeededWait(lim, t) ==
    LET tokens == Advance(lim, t) - TicksPerSec
    IN  IF tokens >= 0 THEN 0 ELSE DurationFromTokens(lim.limit, -tokens)

\* C16, as claimed: in wait mode with timeout W a request that finds no token
\* but for which one accrues within W blocks and is then admitted, never
\* denied; a request whose needed wait exceeds W is denied with 429.
C16_WaitAdmitsWithinTimeout ==
    [][\A p \in Procs :
        LET need == NeededWait(LimOf(p), now) IN
        /\ (pc[p] = "wait" /\ pc'[p] # "wait" /\ LimOf(p).burst >= 1
                /\ need > 0 /\ need <= timeout)
              => pc'[p] = "sleep"
        /\ (pc[p] = "sleep" /\ pc'[p] = "done") => resp'[p].status = 200
        /\ (pc[p] = "wait" /\ pc'[p] # "wait" /\ need > timeout)
              => pc'[p] = "done" /\ resp'[p].status = 429]_vars

\* C16, amended: while the client's request context is live, a request that
\* finds no token but for which one accrues within W blocks; once blocked it
\* is not denied before W has passed nor admitted before the token has
\* accrued; a request whose needed wait exceeds W is denied with 429 at once.
C16_WaitBlocksUntilDeadline ==
    [][\A p \in Procs :
        LET need == NeededWait(LimOf(p), now) IN
        /\ (pc[p] = "wait" /\ pc'[p] # "wait" /\ LimOf(p).burst >= 1
                /\ need > 0 /\ need <= timeout /\ ~req'[p].clientGone)
              => pc'[p] = "sleep"
        /\ (pc[p] = "sleep" /\ pc'[p] = "done")
              => IF resp'[p].status = 200
                 THEN now >= req[p].timeToAct /\ resp'[p].nexts = 1
                 ELSE /\ resp'[p].status = 429 /\ resp'[p].nexts = 0
                      /\ req'[p].clientGone \/ now >= req[p].deadline
        /\ (pc[p] = "wait" /\ pc'[p] # "wait" /\ need > timeout)
              => pc'[p] = "done" /\ resp'[p].status = 429]_vars

C16_Witness ==
    \E p \in Procs :
        /\ Decided(p) /\ mode = "wait" /\ resp[p].status = 200
        /\ req[p].deadline > 0 /\ now >= req[p].timeToAct /\ now < req[p].deadline

TypeOK ==
    /\ now \in 0..Max(Max(MaxTime, StoreMaxTime), EvictMaxTime)
    /\ \A p \in Procs : resp[p].nexts \in 0..1 /\ resp[p].status \in {0, 200, 429}

====
